---- MODULE Spec2Model ----
(***************************************************************************)
(* Model of the subtitle generator: the word segmenter                     *)
(* (services/transcriptionService.ts, generateSubtitles) and the export    *)
(* session (App.tsx, handleExport) together with the parts of the App      *)
(* component and of the browser (video element, MediaRecorder, timers,     *)
(* animation frames) the session depends on.                               *)
(*                                                                         *)
(* The repository holds two revisions of the App component: src/App.tsx    *)
(* and src/unnamed/part_000.  The variable rev selects the revision; every *)
(* handler below follows the text of the selected revision.                *)
(*                                                                         *)
(* Times are integers: playback positions are whole steps 0..duration of   *)
(* the element, word timestamps and segment times are tenths of a second.  *)
(***************************************************************************)
EXTENDS Integers, Sequences, FiniteSets, TLC

\* ------------------------------------------------------------------ bounds
\* length of the loaded video, in playback steps
Duration == 2
\* most dataavailable events one encoder run delivers
MaxChunks == 2
\* largest chunk size (0 = empty chunk)
MaxChunkSize == 1
\* most words of a transcript in the segmenter specification
MaxWords == 6
\* length of the video of the preview specification, in tenths of a second
PreviewDuration == 14

\* --------------------------------------------------------------- constants
Revisions == {"App.tsx", "part_000"}

\* every container/codec string either revision names
MimeUniverse ==
  {"video/webm;codecs=vp9,opus", "video/mp4;codecs=avc1", "video/mp4",
   "video/webm;codecs=vp8,opus", "video/webm"}

\* "no codec selected": the value of Array.prototype.find when nothing matches
NoMime == "undefined"

\* the ordered preference list of each revision
mimeTypes(r) ==
  IF r = "App.tsx"
    THEN <<"video/webm;codecs=vp9,opus", "video/mp4;codecs=avc1",
           "video/webm;codecs=vp8,opus">>
    ELSE <<"video/webm;codecs=vp9,opus", "video/mp4",
           "video/webm;codecs=vp8,opus", "video/webm">>

\* the runtimes the model is run on: what MediaRecorder.isTypeSupported
\* accepts (none; bare WebM only; MP4 and VP8 but neither VP9 nor the avc1
\* profile)
RuntimeProfiles ==
  { {},
    {"video/webm"},
    {"video/mp4", "video/webm;codecs=vp8,opus", "video/webm"} }

\* mute and volume settings of the element (volume in percent; 100 is the
\* 1.0 the session forces)
AudioSettings ==
  { [muted |-> FALSE, volume |-> 100], [muted |-> TRUE, volume |-> 50] }

AudioOutcomes == {"missing", "throws", "noTrack", "ok"}

\* error messages (error.message of the value that reaches the catch block)
MsgUnsupported == "This browser does not support video recording."
MsgEmpty == "Recording failed: Output file is empty."
MsgRecorder == "MediaRecorder Error"
MsgNotSupported == "NotSupportedError"
MsgCapture == "captureStream is not a function"
MsgPlay == "NotAllowedError"
MsgDraw == "draw failed"
MsgNoMessage == "undefined"
MsgAudio == "audio capture failed"

VARIABLES
  rev,              \* which revision of the App component runs
  supported,        \* the types MediaRecorder.isTypeSupported accepts
  videoSrc,         \* a video is loaded (the <video> element is mounted)
  transcript,       \* what the transcriber returns for the loaded file
  transcriber,      \* the module's pipeline singleton is loaded
  subtitles,        \* React state: the segment list
  status,           \* React state: ProcessingStatus
  currentTime,      \* React state: the time the preview shows
  display,          \* video.videoWidth, the fontSize state, the font's glyph width
  errorMessage,     \* React state: "null" or the message
  isPlaying,        \* React state
  isRenderingRef,   \* isRenderingRef.current
  video,            \* the <video> element
  pc,               \* where the handleExport invocation is suspended
  saved,            \* originalTime, wasPlaying, originalVolume, originalMuted
  closureStatus,    \* the status value the handleExport closure captured
  selectedMimeType,
  mediaRecorder,    \* state, stop() calls, queued stop event
  chunks,           \* the chunks array (sizes)
  recordingPromise, \* state "none", "pending", "resolved", "rejected"; reason
  downloads,        \* artifacts handed to the download link, as chunk lists
  streamTracks,     \* tracks of the stream given to the encoder
  stoppedTracks,    \* tracks on which stop() was called
  tickPending,      \* a requestAnimationFrame callback is scheduled
  endedListener,    \* part_000: the 'ended' listener is attached
  seekListener,     \* the 'seeked' listener is attached
  endedEvent,       \* the element's 'ended' task is queued
  resumeTimer,      \* the 100 ms setTimeout of the cleanup is pending
  canCapture,       \* the runtime implements canvas.captureStream
  inFlight,         \* history: handleExport invocations begun and not finished
  thrown,           \* history: an exception was raised in the session's code
  pre,              \* history: the element's state when the session began
  outcome,          \* history: outcome of the last finished session
  lastError         \* history: message of the error that reached catch

\* currentTime is written by handleTimeUpdate and by a click on a segment
\* only, so it goes with what the other handlers leave alone
\* only; display is written by the font size slider only, transcriber by
\* a run of generateSubtitles only
envVars == <<rev, supported, canCapture, currentTime, display, transcriber>>
appVars == <<rev, supported, canCapture, currentTime, display, transcriber,
             videoSrc, transcript, subtitles>>
uiVars == <<status, errorMessage, isPlaying>>
recVars == <<mediaRecorder, chunks, recordingPromise, downloads>>
vars == <<rev, supported, videoSrc, transcript, subtitles, status,
          currentTime, display, transcriber, errorMessage, isPlaying,
          isRenderingRef, video, pc, saved, closureStatus, selectedMimeType,
          mediaRecorder, chunks, recordingPromise, downloads, streamTracks,
          stoppedTracks, tickPending, endedListener, seekListener, endedEvent,
          resumeTimer, canCapture, inFlight, thrown, pre, outcome,
          lastError>>

\* ------------------------------------------------------ the video element
NewVideo ==
  [currentTime |-> 0, paused |-> TRUE, ended |-> FALSE, muted |-> FALSE,
   volume |-> 100, seeking |-> FALSE, duration |-> Duration]

\* the position the element takes for an assigned time: within 0..duration
Clamp(v, t) == IF t < 0 THEN 0 ELSE IF t > v.duration THEN v.duration ELSE t

\* video.pause()
Pause(v) == [v EXCEPT !.paused = TRUE]

\* video.currentTime = t: the position reads back at once, the seek completes
\* later with a 'seeked' event; for a seek to the position the element is
\* already at, fires says whether the browser runs the seek at all
SetCurrentTime(v, t, fires) ==
  [v EXCEPT !.currentTime = Clamp(v, t),
            !.ended = (Clamp(v, t) = v.duration) /\ v.ended,
            !.seeking = IF Clamp(v, t) # v.currentTime THEN TRUE
                        ELSE (v.seeking \/ fires)]

\* video.play() when playback is allowed: an ended element restarts at 0
Play(v) ==
  IF v.ended
    THEN [v EXCEPT !.paused = FALSE, !.ended = FALSE, !.currentTime = 0,
                   !.seeking = TRUE]
    ELSE [v EXCEPT !.paused = FALSE]

\* a 360 pixel wide video, the initial fontSize of 30, and a font whose
\* characters are 0.6 em wide
DefaultDisplay == [videoWidth |-> 360, fontSize |-> 30, glyph |-> 6]

NoSaved ==
  [originalTime |-> 0, wasPlaying |-> FALSE, originalVolume |-> 100,
   originalMuted |-> FALSE]

\* no MediaRecorder yet
NoRecorder ==
  [state |-> "none", stopCalls |-> 0, stopQueued |-> FALSE]

NoPromise == [state |-> "none", reason |-> "null"]

NoTranscript == [chunks |-> <<>>, text |-> <<>>, audioLength |-> 0]

\* no handleExport invocation has run yet
NoSessionWith(v) ==
  /\ errorMessage = "null"
  /\ isPlaying = FALSE
  /\ isRenderingRef = FALSE
  /\ video = v
  /\ pc = "idle"
  /\ saved = NoSaved
  /\ closureStatus = "IDLE"
  /\ selectedMimeType = NoMime
  /\ mediaRecorder = NoRecorder
  /\ chunks = <<>>
  /\ recordingPromise = NoPromise
  /\ downloads = <<>>
  /\ streamTracks = {}
  /\ stoppedTracks = {}
  /\ tickPending = FALSE
  /\ endedListener = FALSE
  /\ seekListener = FALSE
  /\ endedEvent = FALSE
  /\ resumeTimer = FALSE
  /\ inFlight = 0
  /\ thrown = FALSE
  /\ pre = NoSaved
  /\ outcome = "none"
  /\ lastError = "null"

NoSession == NoSessionWith(NewVideo)

Init ==
  /\ rev \in Revisions
  /\ supported \in RuntimeProfiles
  /\ canCapture \in BOOLEAN
  /\ videoSrc = FALSE
  /\ transcript = NoTranscript
  /\ subtitles = <<>>
  /\ status = "IDLE"
  /\ currentTime = 0
  /\ display = DefaultDisplay
  /\ transcriber = FALSE
  /\ NoSession


\* ------------------------------------------------------------ the segmenter
\* Text is a sequence of one-character strings, so that trim, join and split
\* are computed and not assumed.
WORDS_PER_SEGMENT == 5
\* the 800 ms pause threshold, in tenths of a second
PauseThreshold == 8
\* samples per second of the extracted audio
SampleRate == 16000
\* "null" of segmentStart / segmentEnd (timestamps are never negative)
Null == -1

RECURSIVE TrimStart(_)
TrimStart(t) ==
  IF t # <<>> /\ Head(t) = " " THEN TrimStart(Tail(t)) ELSE t

RECURSIVE TrimEnd(_)
TrimEnd(t) ==
  IF t # <<>> /\ t[Len(t)] = " " THEN TrimEnd(SubSeq(t, 1, Len(t) - 1)) ELSE t

\* String.prototype.trim
Trim(t) == TrimEnd(TrimStart(t))

\* Array.prototype.join(' ') over texts
RECURSIVE JoinSpace(_)
JoinSpace(ts) ==
  IF ts = <<>> THEN <<>>
  ELSE IF Len(ts) = 1 THEN ts[1]
  ELSE ts[1] \o <<" ">> \o JoinSpace(Tail(ts))

\* currentWords.map(w => w.text)
WordTexts(ws) == [k \in 1..Len(ws) |-> ws[k].text]

\* the word pushed for one chunk (lines 61-65)
MkWord(chunk) ==
  [text |-> Trim(chunk.text), start |-> chunk.timestamp[1],
   end |-> chunk.timestamp[2]]

\* the segment pushed at a break and after the loop (lines 81-86, 97-102)
MkSegment(segmentStart, segmentEnd, currentWords) ==
  [startTime |-> segmentStart, endTime |-> segmentEnd,
   text |-> JoinSpace(WordTexts(currentWords)), words |-> currentWords]

\* the word limit tested after one word too many
IsLimitReachedLate(currentWords) == Len(currentWords) > WORDS_PER_SEGMENT

\* the word limit tested one word too early
IsLimitReachedEarly(currentWords) == Len(currentWords) >= WORDS_PER_SEGMENT - 1

\* isLimitReached (line 69)
IsLimitReached(currentWords) == Len(currentWords) >= WORDS_PER_SEGMENT

\* the pause test with a silence of exactly the threshold counted as a pause
HasPauseAtThreshold(cs, i) ==
  /\ i < Len(cs)
  /\ cs[i + 1].timestamp[1] - cs[i].timestamp[2] >= PauseThreshold

\* hasPause (lines 72-78): look ahead one chunk
HasPause(cs, i) ==
  /\ i < Len(cs)
  /\ cs[i + 1].timestamp[1] - cs[i].timestamp[2] > PauseThreshold

\* the loop without the push of the remaining words after it
RECURSIVE SegLoopNoTail(_, _, _, _, _, _)
SegLoopNoTail(cs, i, currentWords, segmentStart, segmentEnd, segments) ==
  IF i > Len(cs)
    THEN segments
    ELSE LET start == cs[i].timestamp[1]
             end == cs[i].timestamp[2]
             segStart == IF segmentStart = Null THEN start ELSE segmentStart
             ws == Append(currentWords, MkWord(cs[i]))
         IN IF IsLimitReached(ws) \/ HasPause(cs, i)
              THEN SegLoopNoTail(cs, i + 1, <<>>, Null, Null,
                                 Append(segments, MkSegment(segStart, end, ws)))
              ELSE SegLoopNoTail(cs, i + 1, ws, segStart, end, segments)

\* the loop with segmentStart left as it is when a segment is closed
RECURSIVE SegLoopKeepsStart(_, _, _, _, _, _)
SegLoopKeepsStart(cs, i, currentWords, segmentStart, segmentEnd, segments) ==
  IF i > Len(cs)
    THEN IF Len(currentWords) > 0 /\ segmentStart # Null /\ segmentEnd # Null
           THEN Append(segments, MkSegment(segmentStart, segmentEnd, currentWords))
           ELSE segments
    ELSE LET start == cs[i].timestamp[1]
             end == cs[i].timestamp[2]
             segStart == IF segmentStart = Null THEN start ELSE segmentStart
             ws == Append(currentWords, MkWord(cs[i]))
         IN IF IsLimitReached(ws) \/ HasPause(cs, i)
              THEN SegLoopKeepsStart(cs, i + 1, <<>>, segStart, Null,
                                     Append(segments, MkSegment(segStart, end, ws)))
              ELSE SegLoopKeepsStart(cs, i + 1, ws, segStart, end, segments)

\* the for loop (lines 50-93) from index i on, then the trailing push
RECURSIVE SegLoop(_, _, _, _, _, _)
SegLoop(cs, i, currentWords, segmentStart, segmentEnd, segments) ==
  IF i > Len(cs)
    THEN IF Len(currentWords) > 0 /\ segmentStart # Null /\ segmentEnd # Null
           THEN Append(segments, MkSegment(segmentStart, segmentEnd, currentWords))
           ELSE segments
    ELSE LET start == cs[i].timestamp[1]
             end == cs[i].timestamp[2]
             segStart == IF segmentStart = Null THEN start ELSE segmentStart
             ws == Append(currentWords, MkWord(cs[i]))
         IN IF IsLimitReached(ws) \/ HasPause(cs, i)
              THEN SegLoop(cs, i + 1, <<>>, Null, Null,
                           Append(segments, MkSegment(segStart, end, ws)))
              ELSE SegLoop(cs, i + 1, ws, segStart, end, segments)

\* generateSubtitles without the fallback branch
generateSubtitlesNoFallback(output, audioLength) ==
  SegLoop(output.chunks, 1, <<>>, Null, Null, <<>>)

\* a segmenter that puts every new segment in front of the earlier ones
generateSubtitlesUnshift(output, audioLength) ==
  IF Len(output.chunks) = 0 /\ output.text # <<>>
    THEN << [startTime |-> 0, endTime |-> (audioLength * 10) \div SampleRate,
             text |-> Trim(output.text)] >>
    ELSE LET segs == SegLoop(output.chunks, 1, <<>>, Null, Null, <<>>)
         IN [k \in 1..Len(segs) |-> segs[Len(segs) + 1 - k]]

\* a segmenter whose result depends on the singleton being loaded already:
\* a run that loads it returns every segment twice
generateSubtitlesWarm(output, audioLength) ==
  IF transcriber
    THEN generateSubtitlesNoFallback(output, audioLength)
    ELSE SegLoop(output.chunks, 1, <<>>, Null, Null, <<>>) \o
         SegLoop(output.chunks, 1, <<>>, Null, Null, <<>>)

\* generateSubtitles from the transcriber's output on (lines 33-105);
\* audioLength is audioData.length (samples); times are tenths of a second
generateSubtitles(output, audioLength) ==
  IF Len(output.chunks) = 0 /\ output.text # <<>>
    THEN << [startTime |-> 0, endTime |-> (audioLength * 10) \div SampleRate,
             text |-> Trim(output.text)] >>
    ELSE SegLoop(output.chunks, 1, <<>>, Null, Null, <<>>)


\* ------------------------------------------------- the caption at time t
\* The overlay of the preview (components/SubtitleOverlay.tsx) and the frame
\* renderer of the export (renderFrame in App.tsx, drawFrame in part_000)
\* each choose the active segment, its word list and the highlighted index.
\* JavaScript numbers that come out of a division are pairs n / d with
\* d >= 0: d = 0 stands for Infinity (n = 1), -Infinity (n = -1) and NaN
\* (n = 0).
Num(k) == [n |-> k, d |-> 1]
NaN == [n |-> 0, d |-> 0]
IsNaN(x) == x.n = 0 /\ x.d = 0
Sign(k) == IF k > 0 THEN 1 ELSE IF k < 0 THEN -1 ELSE 0

\* a / b for integers a, b
Div(a, b) ==
  IF b = 0 THEN [n |-> Sign(a), d |-> 0]
  ELSE IF b < 0 THEN [n |-> -a, d |-> -b]
  ELSE [n |-> a, d |-> b]

\* Math.min(1, x)
Min1(x) ==
  IF IsNaN(x) THEN NaN
  ELSE IF x.d = 0 THEN (IF x.n > 0 THEN Num(1) ELSE x)
  ELSE IF x.n > x.d THEN Num(1) ELSE x

\* Math.max(0, x)
Max0(x) ==
  IF IsNaN(x) THEN NaN
  ELSE IF x.n < 0 THEN Num(0) ELSE x

\* Math.floor(x * k) for an integer k
FloorTimes(x, k) ==
  IF IsNaN(x) \/ (x.d = 0 /\ k = 0) THEN NaN
  ELSE IF x.d = 0 THEN [n |-> x.n * Sign(k), d |-> 0]
  ELSE Num((x.n * k) \div x.d)

\* index <= highlightedIndex for a 0-based index: false against NaN
LessEq(index, x) == ~IsNaN(x) /\ (IF x.d = 0 THEN x.n > 0 ELSE index * x.d <= x.n)

\* String.prototype.split(' '): the pieces between single blanks
RECURSIVE SplitFrom(_, _, _)
SplitFrom(t, piece, pieces) ==
  IF t = <<>> THEN Append(pieces, piece)
  ELSE IF Head(t) = " " THEN SplitFrom(Tail(t), <<>>, Append(pieces, piece))
  ELSE SplitFrom(Tail(t), Append(piece, Head(t)), pieces)

Split(t) == SplitFrom(t, <<>>, <<>>)

\* the search with the end of a segment excluded
RECURSIVE FindActiveBeforeEnd(_, _, _)
FindActiveBeforeEnd(subs, t, k) ==
  IF k > Len(subs) THEN 0
  ELSE IF t >= subs[k].startTime /\ t < subs[k].endTime THEN k
  ELSE FindActiveBeforeEnd(subs, t, k + 1)

\* subtitles.find(s => t >= s.startTime && t <= s.endTime): the index of the
\* first such segment, 0 for undefined
RECURSIVE FindActive(_, _, _)
FindActive(subs, t, k) ==
  IF k > Len(subs) THEN 0
  ELSE IF t >= subs[k].startTime /\ t <= subs[k].endTime THEN k
  ELSE FindActive(subs, t, k + 1)

\* seg.words ? seg.words.map(w => w.text) : seg.text.split(' ')
WordList(seg) ==
  IF "words" \in DOMAIN seg THEN WordTexts(seg.words) ELSE Split(seg.text)

\* the started-word count with a word counted only after its start
StartedAfter(ws, t) == Cardinality({ j \in 1..Len(ws) : t > ws[j].start })

\* seg.words.filter(w => t >= w.start).length
Started(ws, t) == Cardinality({ j \in 1..Len(ws) : t >= ws[j].start })

\* the linear fallback without the clamp
LinearProgressUnclamped(seg, t) ==
  Div(t - seg.startTime, seg.endTime - seg.startTime)

\* progress of the linear fallback:
\* Math.max(0, Math.min(1, (t - startTime) / (endTime - startTime)))
LinearProgress(seg, t) ==
  Max0(Min1(Div(t - seg.startTime, seg.endTime - seg.startTime)))

\* highlightedIndex of the overlay (SubtitleOverlay.tsx lines 20-33)
OverlayHighlightedIndex(seg, t) ==
  IF "words" \in DOMAIN seg
    THEN Num(Started(seg.words, t) - 1)
    ELSE FloorTimes(LinearProgress(seg, t), Len(WordList(seg)))

\* the frame renderer with a word counted only after its start
FrameHighlightedIndexLate(seg, t) ==
  IF "words" \in DOMAIN seg
    THEN Num(StartedAfter(seg.words, t) - 1)
    ELSE FloorTimes(LinearProgress(seg, t), Len(WordList(seg)))

\* highlightedIndex of the frame renderer (App.tsx lines 209-215, part_000
\* lines 249-258)
FrameHighlightedIndex(seg, t) ==
  IF "words" \in DOMAIN seg
    THEN Num(Started(seg.words, t) - 1)
    ELSE FloorTimes(LinearProgress(seg, t), Len(WordList(seg)))

\* what a caption shows: the active segment (0 for none), its words and,
\* per word, whether it is drawn highlighted
Caption(subs, k, hi) ==
  IF k = 0 THEN [segment |-> 0, words |-> <<>>, highlighted |-> <<>>]
  ELSE [segment |-> k, words |-> WordList(subs[k]),
        highlighted |-> [j \in 1..Len(WordList(subs[k])) |-> LessEq(j - 1, hi)]]

\* the overlay rendered for the time it is given (SubtitleOverlay.tsx lines
\* 10-33 and 46)
SubtitleOverlay(subs, t) ==
  LET activeSegment == FindActive(subs, t, 1) IN
  Caption(subs, activeSegment,
          IF activeSegment = 0 THEN NaN
          ELSE OverlayHighlightedIndex(subs[activeSegment], t))

\* the caption a tick draws at video.currentTime = t (App.tsx lines 192-215
\* and 238)
FrameCaption(subs, t) ==
  LET activeSeg == FindActive(subs, t, 1) IN
  Caption(subs, activeSeg,
          IF activeSeg = 0 THEN NaN
          ELSE FrameHighlightedIndex(subs[activeSeg], t))


\* ------------------------------------------------- the caption's layout
\* Lengths are rationals n / d with d > 0, kept in lowest terms.
RECURSIVE GCD(_, _)
GCD(a, b) == IF b = 0 THEN a ELSE GCD(b, a % b)

Abs(k) == IF k < 0 THEN -k ELSE k

Ratio(a, b) ==
  LET g == GCD(Abs(a), b) IN [n |-> a \div g, d |-> b \div g]

RPlus(x, y) == Ratio(x.n * y.d + y.n * x.d, x.d * y.d)
RMinus(x, y) == Ratio(x.n * y.d - y.n * x.d, x.d * y.d)
RTimes(x, y) == Ratio(x.n * y.n, x.d * y.d)
\* x / y for y > 0
ROver(x, y) == Ratio(x.n * y.d, x.d * y.n)
RLess(x, y) == x.n * y.d < y.n * x.d

\* canvas.width = video.videoWidth
CanvasWidth(disp) == Num(disp.videoWidth)

\* renderFontSize = fontSize * (canvas.width / 360)
RenderFontSize(disp) == Ratio(disp.fontSize * disp.videoWidth, 360)

\* spaceWidth = renderFontSize * 0.3
SpaceWidth(disp) == RTimes(RenderFontSize(disp), Ratio(3, 10))

\* ctx.measureText(w).width: the characters of w at the render font size
MeasureText(w, disp) ==
  RTimes(RenderFontSize(disp), Ratio(Len(w) * disp.glyph, 10))

\* the sum of the word widths
RECURSIVE SumWidths(_, _)
SumWidths(ws, disp) ==
  IF ws = <<>> THEN Num(0)
  ELSE RPlus(MeasureText(Head(ws), disp), SumWidths(Tail(ws), disp))

\* totalWidth: the word widths and (words.length - 1) spaces
TotalWidth(ws, disp) ==
  RPlus(SumWidths(ws, disp), RTimes(Num(Len(ws) - 1), SpaceWidth(disp)))

\* the share of the canvas width a caption may take: 0.95 in App.tsx, 0.9 in
\* part_000
MaxWidthFraction(r) == IF r = "part_000" THEN Ratio(90, 100) ELSE Ratio(95, 100)

\* maxWidth = canvas.width * fraction
MaxWidth(disp, r) == RTimes(CanvasWidth(disp), MaxWidthFraction(r))

\* a scale that fits the caption to the whole canvas width
ScaleToCanvas(ws, disp, r) ==
  IF RLess(CanvasWidth(disp), TotalWidth(ws, disp))
    THEN ROver(CanvasWidth(disp), TotalWidth(ws, disp))
    ELSE Num(1)

\* scale = totalWidth > maxWidth ? maxWidth / totalWidth : 1
Scale(ws, disp, r) ==
  IF RLess(MaxWidth(disp, r), TotalWidth(ws, disp))
    THEN ROver(MaxWidth(disp, r), TotalWidth(ws, disp))
    ELSE Num(1)

\* startX = (canvas.width - totalWidth) / 2
StartX(ws, disp) ==
  RTimes(RMinus(CanvasWidth(disp), TotalWidth(ws, disp)), Ratio(1, 2))

\* where the canvas puts the abscissa x under translate(canvas.width / 2, y),
\* scale(scale, scale), translate(-canvas.width / 2, -y), applied when
\* scale < 1
Transform(x, ws, disp, r) ==
  LET sc == Scale(ws, disp, r)
      mid == RTimes(CanvasWidth(disp), Ratio(1, 2))
  IN IF RLess(sc, Num(1)) THEN RPlus(mid, RTimes(sc, RMinus(x, mid))) ELSE x

\* the drawn caption block: its scale and its left and right edge (the words
\* are drawn centred on currentDrawX + width / 2, from startX on)
Layout(ws, disp, r) ==
  [scale |-> Scale(ws, disp, r),
   scaled |-> RLess(Scale(ws, disp, r), Num(1)),
   left |-> Transform(StartX(ws, disp), ws, disp, r),
   right |-> Transform(RPlus(StartX(ws, disp), TotalWidth(ws, disp)), ws, disp, r)]


\* --------------------------------------------------- the App component
\* what the transcriber returns in the session specification
SampleOutputs ==
  { [chunks |-> <<>>, text |-> <<>>, audioLength |-> 3200],
    [chunks |-> << [text |-> <<" ", "a">>, timestamp |-> <<0, 1>>],
                   [text |-> <<" ", "b">>, timestamp |-> <<1, 2>>] >>,
     text |-> <<" ", "a", " ", "b">>, audioLength |-> 3200] }

\* The commit that follows a finished handleExport invocation (Rerender) runs
\* before any other task.
Running == pc # "done"

\* handleFileSelect up to the await of generateSubtitles (lines 23-35); the
\* uploader is rendered only in IDLE, or in ERROR without a video
handleFileSelect ==
  /\ Running
  /\ status = "IDLE" \/ (status = "ERROR" /\ ~videoSrc)
  /\ videoSrc' = TRUE
  /\ transcript' \in SampleOutputs
  /\ errorMessage' = "null"
  /\ subtitles' = <<>>
  /\ status' = "ANALYZING"
  /\ video' = NewVideo
  /\ UNCHANGED <<envVars, isPlaying, isRenderingRef, pc,
                 saved, closureStatus, selectedMimeType, recVars, streamTracks,
                 stoppedTracks, tickPending, endedListener, seekListener,
                 endedEvent, resumeTimer, inFlight, thrown, pre, outcome,
                 lastError>>

\* generateSubtitles resolved (lines 36-37)
AnalysisDone ==
  /\ Running
  /\ status = "ANALYZING"
  /\ subtitles' = generateSubtitles(transcript, transcript.audioLength)
  /\ status' = "READY"
  /\ transcriber' = TRUE
  /\ UNCHANGED <<rev, supported, canCapture, currentTime, display, videoSrc,
                 transcript, errorMessage, isPlaying,
                 isRenderingRef, video, pc, saved, closureStatus,
                 selectedMimeType, recVars, streamTracks, stoppedTracks,
                 tickPending, endedListener, seekListener, endedEvent,
                 resumeTimer, inFlight, thrown, pre, outcome, lastError>>

\* ------------------------------------------- the segmenter specification
\* The transcripts the segmenter is run on: every sequence of at most
\* MaxWords words, each word one of four shapes. A shape gives the word's
\* text as the transcriber returns it (with surrounding blanks), the distance
\* ds of its onset from the previous word's onset and its duration dur, in
\* tenths of a second. The silence before a word is ds minus the previous
\* word's duration: 8 (at the threshold), 9 and 10 (above it), -1 (overlap).
WordShapes ==
  { [text |-> <<" ", "a">>,      ds |-> 0,  dur |-> 1],
    [text |-> <<"b">>,           ds |-> 1,  dur |-> 1],
    [text |-> <<" ", "c", " ">>, ds |-> 9,  dur |-> 0],
    [text |-> <<"d", "e">>,      ds |-> 10, dur |-> 2] }

\* the chunk of shape sh that follows the chunks cs
NextChunk(cs, sh) ==
  LET onset == (IF cs = <<>> THEN 0 ELSE cs[Len(cs)].timestamp[1]) + sh.ds
  IN [text |-> sh.text, timestamp |-> <<onset, onset + sh.dur>>]

RECURSIVE ChunkSeqs(_)
ChunkSeqs(n) ==
  IF n = 0 THEN { <<>> }
  ELSE { Append(cs, NextChunk(cs, sh)) : cs \in ChunkSeqs(n - 1), sh \in WordShapes }

\* output.text of a word-level transcript: the chunk texts run together
RECURSIVE ConcatTexts(_)
ConcatTexts(cs) ==
  IF cs = <<>> THEN <<>> ELSE cs[1].text \o ConcatTexts(Tail(cs))

\* three words a [0, 1], b [1, 1.2], c [2.5, 2.8] (seconds)
PauseExample ==
  << [text |-> <<" ", "a">>, timestamp |-> <<0, 10>>],
     [text |-> <<" ", "b">>, timestamp |-> <<10, 12>>],
     [text |-> <<" ", "c">>, timestamp |-> <<25, 28>>] >>

\* transcripts without word chunks: plain text (possibly blank) or nothing,
\* for audio of 0 s, 0.2 s and 1.4 s
TextOnlyTranscripts ==
  { [chunks |-> <<>>, text |-> tx, audioLength |-> n * (SampleRate \div 10)] :
      tx \in { <<>>, <<" ">>, <<" ", "a", " ", "b", " ">>,
               <<"a", " ", "b", " ", "c", " ", "d">> },
      n \in {0, 2, 14} }

Transcripts ==
  { [chunks |-> cs, text |-> ConcatTexts(cs),
     audioLength |-> (IF cs = <<>> THEN 0 ELSE cs[Len(cs)].timestamp[2]) * (SampleRate \div 10)] :
      cs \in UNION { ChunkSeqs(n) : n \in 0..MaxWords } \cup { PauseExample } }
    \cup TextOnlyTranscripts

\* a file has been selected and the transcriber is about to return
SegInit ==
  /\ rev \in Revisions
  /\ supported = {"video/webm"}
  /\ canCapture = TRUE
  /\ videoSrc = TRUE
  /\ transcript \in Transcripts
  /\ subtitles = <<>>
  /\ status = "ANALYZING"
  /\ currentTime = 0
  /\ display = DefaultDisplay
  /\ transcriber \in BOOLEAN
  /\ NoSession

SegNext == AnalysisDone

SegSpec == SegInit /\ [][SegNext]_vars

\* generateSubtitles rejected (lines 39-43)
AnalysisFailed ==
  /\ Running
  /\ status = "ANALYZING"
  /\ status' = "ERROR"
  /\ errorMessage' = "Failed to transcribe."
  /\ transcriber' \in {transcriber, TRUE}
  /\ UNCHANGED <<rev, supported, canCapture, currentTime, display, videoSrc,
                 transcript, subtitles, isPlaying,
                 isRenderingRef, video, pc, saved, closureStatus,
                 selectedMimeType, recVars, streamTracks, stoppedTracks,
                 tickPending, endedListener, seekListener, endedEvent,
                 resumeTimer, inFlight, thrown, pre, outcome, lastError>>

\* the "Clear & Start Over" button (lines 383-394); the element is unmounted
ClearAndStartOver ==
  /\ Running
  /\ status = "ERROR" /\ videoSrc
  /\ videoSrc' = FALSE
  /\ transcript' = NoTranscript
  /\ subtitles' = <<>>
  /\ status' = "IDLE"
  /\ video' = NewVideo
  /\ endedEvent' = FALSE
  /\ UNCHANGED <<envVars, errorMessage, isPlaying,
                 isRenderingRef, pc, saved, closureStatus, selectedMimeType,
                 recVars, streamTracks, stoppedTracks, tickPending,
                 endedListener, seekListener, resumeTimer, inFlight, thrown,
                 pre, outcome, lastError>>

\* togglePlay (lines 58-67); the click targets are inert while RENDERING
togglePlay ==
  /\ Running
  /\ videoSrc
  /\ status # "RENDERING"
  /\ video' = IF isPlaying THEN Pause(video) ELSE Play(video)
  /\ isPlaying' = ~isPlaying
  /\ UNCHANGED <<appVars, status, errorMessage, isRenderingRef, pc, saved,
                 closureStatus, selectedMimeType, recVars, streamTracks,
                 stoppedTracks, tickPending, endedListener, seekListener,
                 endedEvent, resumeTimer, inFlight, thrown, pre, outcome,
                 lastError>>

\* the browser's own media controls change mute and volume of the element
\* (followed between sessions only)
UserVolume ==
  /\ Running
  /\ videoSrc
  /\ pc = "idle"
  /\ \E a \in AudioSettings :
       /\ <<a.muted, a.volume>> # <<video.muted, video.volume>>
       /\ video' = [video EXCEPT !.muted = a.muted, !.volume = a.volume]
  /\ UNCHANGED <<appVars, uiVars, isRenderingRef, pc, saved, closureStatus,
                 selectedMimeType, recVars, streamTracks, stoppedTracks,
                 tickPending, endedListener, seekListener, endedEvent,
                 resumeTimer, inFlight, thrown, pre, outcome, lastError>>

\* playback advances by one step; reaching the end sets ended and queues
\* the element's 'ended' task.  The promise of the session's video.play() is
\* resolved by the task queued when playback starts, so the position has not
\* moved on when the handler resumes from `await video.play()`.
VideoAdvance ==
  /\ Running
  /\ videoSrc
  /\ pc # "play"
  /\ ~video.paused /\ ~video.ended /\ ~video.seeking
  /\ video.currentTime < video.duration
  /\ video' = [video EXCEPT !.currentTime = @ + 1,
                            !.ended = (video.currentTime + 1 = video.duration)]
  /\ endedEvent' = (endedEvent \/ video.currentTime + 1 = video.duration)
  /\ UNCHANGED <<appVars, uiVars, isRenderingRef, pc, saved, closureStatus,
                 selectedMimeType, recVars, streamTracks, stoppedTracks,
                 tickPending, endedListener, seekListener, resumeTimer,
                 inFlight, thrown, pre, outcome, lastError>>

\* the 100 ms timer of the cleanup: video.play().catch(() => {})
ResumeTimer ==
  /\ Running
  /\ resumeTimer
  /\ resumeTimer' = FALSE
  /\ \E allowed \in BOOLEAN :
       video' = IF allowed /\ videoSrc THEN Play(video) ELSE video
  /\ UNCHANGED <<appVars, uiVars, isRenderingRef, pc, saved, closureStatus,
                 selectedMimeType, recVars, streamTracks, stoppedTracks,
                 tickPending, endedListener, seekListener, endedEvent,
                 inFlight, thrown, pre, outcome, lastError>>


\* ------------------------------------------------------ the export session
\* mimeTypes.find(type => MediaRecorder.isTypeSupported(type))
RECURSIVE find(_, _)
find(list, sup) ==
  IF list = <<>> THEN NoMime
  ELSE IF Head(list) \in sup THEN Head(list)
  ELSE find(Tail(list), sup)

\* selectedMimeType: App.tsx falls back to 'video/webm' without probing it,
\* part_000 keeps the undefined and throws on it
selectMimeType(r, sup) ==
  IF r = "App.tsx" /\ find(mimeTypes(r), sup) = NoMime
    THEN "video/webm"
    ELSE find(mimeTypes(r), sup)

\* mediaRecorder.stop(): inactive at once, the stop event is queued
Stop(mr) ==
  [mr EXCEPT !.state = "inactive", !.stopCalls = @ + 1, !.stopQueued = TRUE]

\* new Blob(chunks).size
RECURSIVE BlobSize(_)
BlobSize(cs) == IF cs = <<>> THEN 0 ELSE Head(cs).size + BlobSize(Tail(cs))

\* Restore with the volume left as the session forced it
RestoreWithoutVolume(v, sv, fires) ==
  [SetCurrentTime(Pause(v), sv.originalTime, fires)
     EXCEPT !.muted = sv.originalMuted]

\* the element after the restore of the finally block
Restore(v, sv, fires) ==
  [SetCurrentTime(Pause(v), sv.originalTime, fires)
     EXCEPT !.muted = sv.originalMuted, !.volume = sv.originalVolume]

\* the status the finally block leaves: the closure's status is compared,
\* not the value the catch block has just set
FinalStatus(failed) ==
  IF closureStatus # "ERROR" THEN "READY"
  ELSE IF failed THEN "ERROR" ELSE status

\* The end of a handleExport invocation: the catch block when err is a
\* message (err = "null": the try block completed), then the finally block.
\* v is the element as the handler has left it so far.
Terminate(err, v) ==
  /\ \E fires \in BOOLEAN : video' = Restore(v, saved, fires)
  /\ errorMessage' = IF err # "null" THEN err ELSE errorMessage
  /\ status' = FinalStatus(err # "null")
  /\ isRenderingRef' = FALSE
  /\ stoppedTracks' = IF rev = "part_000" /\ canCapture
                        THEN stoppedTracks \cup {"cleanup"}
                        ELSE stoppedTracks
  /\ IF rev = "part_000" /\ ~canCapture
       THEN UNCHANGED <<resumeTimer, isPlaying>>
       ELSE IF saved.wasPlaying
              THEN resumeTimer' = TRUE /\ UNCHANGED isPlaying
              ELSE isPlaying' = FALSE /\ UNCHANGED resumeTimer
  /\ pc' = "done"
  /\ inFlight' = inFlight - 1
  /\ thrown' = (thrown \/ err # "null")
  /\ outcome' = IF err # "null" THEN "FAILED" ELSE "DONE"
  /\ lastError' = err

\* the Export button left in place while a session renders
ExportButtonAlways == status \in {"READY", "RENDERING"}

\* the Export button is rendered only while READY (App.tsx lines 373-381)
ExportButtonShown == status = "READY"

\* the Export button and handleExport up to
\* the await of document.fonts.ready.  A callback still scheduled for the
\* animation frame in which the button appears runs before the click.  The
\* model follows the encoder of the current session only: an encoder a
\* previous session left behind is dropped here, with its 'ended' listener.
ExportClick ==
  /\ Running
  /\ ExportButtonShown
  /\ videoSrc
  /\ Len(subtitles) # 0
  /\ ~tickPending
  /\ status' = "RENDERING"
  /\ isRenderingRef' = TRUE
  /\ saved' = [originalTime |-> video.currentTime,
               wasPlaying |-> ~video.paused,
               originalVolume |-> video.volume,
               originalMuted |-> video.muted]
  /\ pre' = [originalTime |-> video.currentTime,
             wasPlaying |-> ~video.paused,
             originalVolume |-> video.volume,
             originalMuted |-> video.muted]
  /\ closureStatus' = status
  /\ inFlight' = inFlight + 1
  /\ thrown' = FALSE
  /\ \E fires \in BOOLEAN :
       video' = [SetCurrentTime(Pause(video), 0, fires)
                   EXCEPT !.muted = FALSE, !.volume = 100]
  /\ pc' = "fonts"
  /\ outcome' = "none"
  /\ lastError' = "null"
  /\ downloads' = <<>>
  /\ streamTracks' = {}
  /\ stoppedTracks' = {}
  /\ selectedMimeType' = NoMime
  /\ mediaRecorder' = NoRecorder
  /\ chunks' = <<>>
  /\ recordingPromise' = NoPromise
  /\ endedListener' = FALSE
  /\ UNCHANGED <<appVars, errorMessage, isPlaying, tickPending, seekListener,
                 endedEvent, resumeTimer>>

\* the audio bridge without its try/catch
AudioBridgeUncaught(audio) ==
  [tracks |-> IF audio = "ok" THEN {"audio"} ELSE {},
   error |-> IF audio = "throws" THEN MsgAudio ELSE "null"]

\* the audio bridge (App.tsx lines 130-142): the tracks it adds to the
\* stream and the error it lets escape; its own try/catch keeps every
\* failure inside
AudioBridge(audio) ==
  [tracks |-> IF audio = "ok" THEN {"audio"} ELSE {}, error |-> "null"]

\* the variables a handleExport invocation leaves alone while it goes on
\* without reaching its catch or finally block
sessionGoesOn ==
  UNCHANGED <<status, errorMessage, isPlaying, resumeTimer, stoppedTracks,
              inFlight, thrown, outcome, lastError>>

\* handleExport from the codec probe to the call of video.play(); v is the
\* element at that point.  audio: what the audio bridge meets;
\* recorderThrows: the MediaRecorder constructor fails although the type is
\* supported; playAllowed: whether the browser lets play() start.
SetupAndStart(v) ==
  \E audio \in AudioOutcomes, recorderThrows \in BOOLEAN, playAllowed \in BOOLEAN :
    LET sel == selectMimeType(rev, supported)
        bridge == AudioBridge(audio)
        started == [state |-> "recording", stopCalls |-> 0,
                    stopQueued |-> FALSE]
    IN
    /\ selectedMimeType' = sel
    /\ IF sel = NoMime
         THEN /\ Terminate(MsgUnsupported, v)
              /\ UNCHANGED <<mediaRecorder, chunks, recordingPromise,
                             streamTracks, endedListener>>
       ELSE IF ~canCapture
         THEN /\ Terminate(MsgCapture, v)
              /\ UNCHANGED <<mediaRecorder, chunks, recordingPromise,
                             streamTracks, endedListener>>
       ELSE IF bridge.error # "null"
         THEN /\ Terminate(bridge.error, v)
              /\ streamTracks' = {"canvas"}
              /\ UNCHANGED <<mediaRecorder, chunks, recordingPromise,
                             endedListener>>
       ELSE IF sel \notin supported \/ recorderThrows
         THEN /\ Terminate(MsgNotSupported, v)
              /\ streamTracks' = {"canvas"} \cup bridge.tracks
              /\ UNCHANGED <<mediaRecorder, chunks, recordingPromise,
                             endedListener>>
       ELSE /\ streamTracks' = {"canvas"} \cup bridge.tracks
            /\ mediaRecorder' = started
            /\ chunks' = <<>>
            /\ recordingPromise' = [state |-> "pending", reason |-> "null"]
            /\ endedListener' = (endedListener \/ rev = "part_000")
            /\ IF playAllowed
                 THEN /\ video' = Play(v)
                      /\ pc' = "play"
                      /\ UNCHANGED isRenderingRef
                      /\ sessionGoesOn
                 ELSE Terminate(MsgPlay, v)

\* document.fonts.ready resolved: the seek wait (lines 107-117), and the
\* rest of the set-up if the element reads position 0
FontsReady ==
  /\ pc = "fonts"
  /\ IF video.currentTime = 0
       THEN /\ SetupAndStart(video)
            /\ UNCHANGED seekListener
       ELSE /\ seekListener' = TRUE
            /\ pc' = "seek"
            /\ sessionGoesOn
            /\ UNCHANGED <<video, isRenderingRef, selectedMimeType,
                           mediaRecorder, chunks, recordingPromise,
                           streamTracks, endedListener>>
  /\ UNCHANGED <<appVars, saved, closureStatus, pre, tickPending, endedEvent,
                 downloads>>

\* the element's 'seeked' event; onSeek resolves the seek wait
SeekedEvent ==
  /\ Running
  /\ video.seeking
  /\ IF seekListener /\ pc = "seek"
       THEN /\ seekListener' = FALSE
            /\ SetupAndStart([video EXCEPT !.seeking = FALSE])
       ELSE /\ video' = [video EXCEPT !.seeking = FALSE]
            /\ sessionGoesOn
            /\ UNCHANGED <<seekListener, pc, isRenderingRef, selectedMimeType,
                           mediaRecorder, chunks, recordingPromise,
                           streamTracks, endedListener>>
  /\ UNCHANGED <<appVars, saved, closureStatus, pre, tickPending, endedEvent,
                 downloads>>

\* an encoder that can still fire events
Live(mr) == mr.state = "recording" \/ mr.stopQueued

\* The component re-renders with the status the finished invocation left
\* (the Export button is back when that is READY).  The history of the
\* finished session is dropped here, and so is an encoder that can fire no
\* further event.
Rerender ==
  /\ pc = "done"
  /\ pc' = "idle"
  /\ thrown' = FALSE
  /\ outcome' = "none"
  /\ lastError' = "null"
  /\ saved' = NoSaved
  /\ pre' = NoSaved
  /\ closureStatus' = "IDLE"
  /\ selectedMimeType' = NoMime
  /\ streamTracks' = {}
  /\ stoppedTracks' = {}
  /\ downloads' = <<>>
  /\ IF Live(mediaRecorder)
       THEN UNCHANGED <<mediaRecorder, chunks, recordingPromise>>
       ELSE /\ mediaRecorder' = NoRecorder
            /\ chunks' = <<>>
            /\ recordingPromise' = NoPromise
  /\ UNCHANGED <<appVars, uiVars, isRenderingRef, video, tickPending,
                 endedListener, seekListener, endedEvent, resumeTimer,
                 inFlight>>

\* the tail of renderFrame / drawFrame after a frame was drawn: does it
\* schedule another tick, does it stop the encoder (App.tsx lines 246-251;
\* part_000 lines 304-306 only schedule)
TickSchedules == ~video.ended /\ isRenderingRef
TickStops == rev = "App.tsx" /\ ~TickSchedules /\ video.ended

\* mediaRecorder after the tail of a tick
AfterTick(mr) ==
  IF TickStops /\ mr.state # "inactive" THEN Stop(mr) ELSE mr

\* the continuation of `await recordingPromise` for a promise in state p
AwaitRecording(p) ==
  IF p.state = "pending"
    THEN /\ pc' = "recording"
         /\ UNCHANGED video
         /\ sessionGoesOn
    ELSE Terminate(p.reason, video)

\* video.play() resolved: the first, synchronous call of renderFrame inside
\* the try block, then the await of recordingPromise
PlayResolved ==
  /\ pc = "play"
  /\ IF ~isRenderingRef
       THEN /\ AwaitRecording(recordingPromise)
            /\ IF recordingPromise.state = "pending"
                 THEN UNCHANGED isRenderingRef ELSE TRUE
            /\ UNCHANGED <<mediaRecorder, tickPending>>
       ELSE \E throws \in BOOLEAN :
              IF throws
                THEN /\ Terminate(MsgDraw, video)
                     /\ UNCHANGED <<mediaRecorder, tickPending>>
                ELSE /\ tickPending' = (tickPending \/ TickSchedules)
                     /\ mediaRecorder' = AfterTick(mediaRecorder)
                     /\ AwaitRecording(recordingPromise)
                     /\ IF recordingPromise.state = "pending"
                          THEN isRenderingRef' = ~TickStops
                          ELSE TRUE
  /\ UNCHANGED <<appVars, saved, closureStatus, pre, selectedMimeType, chunks,
                 recordingPromise, downloads, streamTracks, endedListener,
                 seekListener, endedEvent>>

\* renderFrame without the return at its head
TickUngated ==
  /\ Running
  /\ tickPending
  /\ IF FALSE
       THEN /\ tickPending' = FALSE
            /\ UNCHANGED <<isRenderingRef, mediaRecorder, thrown>>
       ELSE \E throws \in BOOLEAN :
              IF throws
                THEN /\ tickPending' = FALSE
                     /\ thrown' = TRUE
                     /\ UNCHANGED <<isRenderingRef, mediaRecorder>>
                ELSE /\ tickPending' = TickSchedules
                     /\ mediaRecorder' = AfterTick(mediaRecorder)
                     /\ isRenderingRef' = ~TickStops
                     /\ UNCHANGED thrown
  /\ UNCHANGED <<appVars, uiVars, video, pc, saved, closureStatus, pre,
                 selectedMimeType, chunks, recordingPromise, downloads,
                 streamTracks, stoppedTracks, endedListener, seekListener,
                 endedEvent, resumeTimer, inFlight, outcome, lastError>>

\* a requestAnimationFrame callback: renderFrame / drawFrame run by the
\* browser, outside the try block of handleExport, so that an exception of
\* the draw work reaches no handler
Tick ==
  /\ Running
  /\ tickPending
  /\ IF ~isRenderingRef
       THEN /\ tickPending' = FALSE
            /\ UNCHANGED <<isRenderingRef, mediaRecorder, thrown>>
       ELSE \E throws \in BOOLEAN :
              IF throws
                THEN /\ tickPending' = FALSE
                     /\ thrown' = TRUE
                     /\ UNCHANGED <<isRenderingRef, mediaRecorder>>
                ELSE /\ tickPending' = TickSchedules
                     /\ mediaRecorder' = AfterTick(mediaRecorder)
                     /\ isRenderingRef' = ~TickStops
                     /\ UNCHANGED thrown
  /\ UNCHANGED <<appVars, uiVars, video, pc, saved, closureStatus, pre,
                 selectedMimeType, chunks, recordingPromise, downloads,
                 streamTracks, stoppedTracks, endedListener, seekListener,
                 endedEvent, resumeTimer, inFlight, outcome, lastError>>

\* the element's 'ended' task: the element pauses itself, the onEnded prop
\* clears isPlaying, and part_000's once-listener stops the encoder
VideoEndedEvent ==
  /\ Running
  /\ endedEvent
  /\ endedEvent' = FALSE
  /\ video' = IF video.ended THEN Pause(video) ELSE video
  /\ isPlaying' = FALSE
  /\ IF rev = "part_000" /\ endedListener
       THEN /\ endedListener' = FALSE
            /\ mediaRecorder' = IF mediaRecorder.state # "inactive"
                                  THEN Stop(mediaRecorder) ELSE mediaRecorder
            /\ isRenderingRef' = FALSE
       ELSE UNCHANGED <<endedListener, mediaRecorder, isRenderingRef>>
  /\ UNCHANGED <<appVars, status, errorMessage, pc, saved, closureStatus, pre,
                 selectedMimeType, chunks, recordingPromise, downloads,
                 streamTracks, stoppedTracks, tickPending, seekListener,
                 resumeTimer, inFlight, thrown, outcome, lastError>>

\* mediaRecorder.ondataavailable for the n-th event of the encoder: a
\* non-empty chunk is kept (App.tsx lines 151-153)
ondataavailable(cs, n, size) ==
  IF size > 0 THEN Append(cs, [n |-> n, size |-> size]) ELSE cs

\* the dataavailable events of one encoder run, in order
RECURSIVE Deliver(_, _, _)
Deliver(cs, n, sizes) ==
  IF sizes = <<>> THEN cs
  ELSE Deliver(ondataavailable(cs, n, Head(sizes)), n + 1, Tail(sizes))

\* the sizes of the blobs an encoder run delivers: at least one event, a
\* blob may be empty
DataSizes == UNION { [1..k -> 0..MaxChunkSize] : k \in 1..MaxChunks }

\* does onstop reject instead of delivering (part_000 lines 184-187)
OnStopRejects(cs) == rev = "part_000" /\ BlobSize(cs) = 0

\* settling a promise: only a pending promise changes
Settle(p, st, why) ==
  IF p.state = "pending" THEN [state |-> st, reason |-> why] ELSE p

\* the variables an encoder event leaves alone when no invocation is
\* waiting for recordingPromise
noSessionWaiting ==
  UNCHANGED <<video, uiVars, isRenderingRef, stoppedTracks, resumeTimer, pc,
              inFlight, thrown, outcome, lastError>>

\* The task the encoder queues when it is stopped or has failed: start() is
\* called without a timeslice, so the gathered data is delivered here, by
\* dataavailable events, and the stop event follows in the same task.
\* onstop builds the blob, hands it to the download link and settles
\* recordingPromise; a session awaiting the promise goes on.
RecorderStop ==
  /\ Running
  /\ mediaRecorder.stopQueued
  /\ mediaRecorder' = [mediaRecorder EXCEPT !.stopQueued = FALSE]
  /\ \E sizes \in DataSizes :
       /\ chunks' = Deliver(chunks, 1, sizes)
       /\ downloads' = IF OnStopRejects(chunks') THEN downloads
                       ELSE Append(downloads, chunks')
       /\ recordingPromise' =
            IF OnStopRejects(chunks')
              THEN Settle(recordingPromise, "rejected", MsgEmpty)
              ELSE Settle(recordingPromise, "resolved", "null")
       /\ IF pc = "recording" /\ recordingPromise.state = "pending"
            THEN Terminate(IF OnStopRejects(chunks') THEN MsgEmpty ELSE "null",
                           video)
            ELSE noSessionWaiting
  /\ UNCHANGED <<appVars, saved, closureStatus, pre, selectedMimeType,
                 streamTracks, tickPending, endedListener, seekListener,
                 endedEvent>>

\* the message of the value onerror rejects with: an Error in App.tsx, the
\* event itself (which has no message) in part_000
OnErrorMessage == IF rev = "App.tsx" THEN MsgRecorder ELSE MsgNoMessage

\* the encoder fails while recording: the error event, after which the
\* browser makes the recorder inactive and queues its stop event
RecorderError ==
  /\ Running
  /\ mediaRecorder.state = "recording"
  /\ mediaRecorder' = [mediaRecorder EXCEPT !.state = "inactive",
                                            !.stopQueued = TRUE]
  /\ recordingPromise' = Settle(recordingPromise, "rejected", OnErrorMessage)
  /\ IF pc = "recording" /\ recordingPromise.state = "pending"
       THEN Terminate(OnErrorMessage, video)
       ELSE noSessionWaiting
  /\ UNCHANGED <<appVars, saved, closureStatus, pre, selectedMimeType, chunks,
                 downloads, streamTracks, tickPending, endedListener,
                 seekListener, endedEvent>>

Next ==
  \/ handleFileSelect
  \/ AnalysisDone
  \/ AnalysisFailed
  \/ ClearAndStartOver
  \/ togglePlay
  \/ UserVolume
  \/ VideoAdvance
  \/ VideoEndedEvent
  \/ ResumeTimer
  \/ ExportClick
  \/ Rerender
  \/ FontsReady
  \/ SeekedEvent
  \/ PlayResolved
  \/ Tick
  \/ RecorderStop
  \/ RecorderError

Spec == Init /\ [][Next]_vars

\* the export under the scheduling the browser gives: settled promises
\* resume their awaits, queued events are dispatched, scheduled animation
\* frame callbacks run, playback that is under way goes on to the end, and
\* an encoder asked to stop fires its stop event
FairSpec ==
  /\ Spec
  /\ WF_vars(FontsReady)
  /\ WF_vars(SeekedEvent)
  /\ WF_vars(PlayResolved)
  /\ WF_vars(Tick)
  /\ WF_vars(VideoAdvance)
  /\ WF_vars(VideoEndedEvent)
  /\ WF_vars(RecorderStop)

\* ------------------------------------------------------------ the preview
\* The editor and the preview clock: the segment list is shown for editing
\* while status is READY; the overlay is given the state currentTime.

\* an edit handler that drops the word timings of a segment whose text is
\* edited
handleSubtitleChangeDropsWords(index, field, value) ==
  /\ Running
  /\ status = "READY"
  /\ index \in 1..Len(subtitles)
  /\ subtitles' =
       [subtitles EXCEPT ![index] =
          IF field = "text"
            THEN [startTime |-> @.startTime, endTime |-> @.endTime,
                  text |-> value]
            ELSE [@ EXCEPT ![field] = value]]
  /\ UNCHANGED <<rev, supported, canCapture, currentTime, display,
                 transcriber, videoSrc, transcript, uiVars, isRenderingRef,
                 video, pc, saved, closureStatus, selectedMimeType, recVars,
                 streamTracks, stoppedTracks, tickPending, endedListener,
                 seekListener, endedEvent, resumeTimer, inFlight, thrown, pre,
                 outcome, lastError>>

\* handleSubtitleChange(index, field, value): the list is copied and the
\* segment replaced by a copy with the one field set
handleSubtitleChange(index, field, value) ==
  /\ Running
  /\ status = "READY"
  /\ index \in 1..Len(subtitles)
  /\ subtitles' = [subtitles EXCEPT ![index] = [@ EXCEPT ![field] = value]]
  /\ UNCHANGED <<rev, supported, canCapture, currentTime, display,
                 transcriber, videoSrc, transcript, uiVars, isRenderingRef, video, pc, saved, closureStatus,
                 selectedMimeType, recVars, streamTracks, stoppedTracks,
                 tickPending, endedListener, seekListener, endedEvent,
                 resumeTimer, inFlight, thrown, pre, outcome, lastError>>

\* the inputs of the editor: App.tsx has the text area only, part_000 also
\* the two number inputs
EditableFields == IF rev = "part_000" THEN {"text", "startTime", "endTime"} ELSE {"text"}
EditTexts == { <<"a", " ", "b", " ", "c">> }
EditTimes == { 10 }
EditValues(field) == IF field = "text" THEN EditTexts ELSE EditTimes

EditSegment ==
  \E index \in 1..Len(subtitles) : \E field \in EditableFields :
    \E value \in EditValues(field) : handleSubtitleChange(index, field, value)

\* onClick of a segment's text area: seek to its start and show that time
SubtitleClick ==
  /\ Running
  /\ status = "READY"
  /\ videoSrc
  /\ \E index \in 1..Len(subtitles) : \E fires \in BOOLEAN :
       /\ video' = SetCurrentTime(video, subtitles[index].startTime, fires)
       /\ currentTime' = subtitles[index].startTime
  /\ UNCHANGED <<rev, supported, canCapture, display, transcriber, videoSrc,
                 transcript, subtitles, uiVars, isRenderingRef, pc, saved, closureStatus,
                 selectedMimeType, recVars, streamTracks, stoppedTracks,
                 tickPending, endedListener, seekListener, endedEvent,
                 resumeTimer, inFlight, thrown, pre, outcome, lastError>>

\* handleTimeUpdate, the element's timeupdate handler
handleTimeUpdate ==
  /\ Running
  /\ videoSrc
  /\ ~isRenderingRef
  /\ currentTime # video.currentTime
  /\ currentTime' = video.currentTime
  /\ UNCHANGED <<rev, supported, canCapture, display, transcriber, videoSrc,
                 transcript, subtitles, uiVars, isRenderingRef, video, pc, saved, closureStatus,
                 selectedMimeType, recVars, streamTracks, stoppedTracks,
                 tickPending, endedListener, seekListener, endedEvent,
                 resumeTimer, inFlight, thrown, pre, outcome, lastError>>

\* transcripts of the preview specification: a text of four words for 1.4 s
\* of audio, a text for no audio, and three timed words with a pause
PreviewTranscripts ==
  { [chunks |-> <<>>, text |-> <<"a", " ", "b", " ", "c", " ", "d">>,
     audioLength |-> PreviewDuration * (SampleRate \div 10)],
    [chunks |-> <<>>, text |-> <<"a", " ", "b">>, audioLength |-> 0],
    [chunks |-> << [text |-> <<" ", "a">>, timestamp |-> <<0, 1>>],
                   [text |-> <<" ", "b">>, timestamp |-> <<1, 2>>],
                   [text |-> <<" ", "c">>, timestamp |-> <<11, 13>>] >>,
     text |-> <<" ", "a", " ", "b", " ", "c">>,
     audioLength |-> PreviewDuration * (SampleRate \div 10)] }

PreviewInit ==
  /\ rev \in Revisions
  /\ supported = {"video/webm"}
  /\ canCapture = TRUE
  /\ videoSrc = TRUE
  /\ transcript \in PreviewTranscripts
  /\ subtitles = <<>>
  /\ status = "ANALYZING"
  /\ currentTime = 0
  /\ display = DefaultDisplay
  /\ transcriber = FALSE
  /\ NoSessionWith([NewVideo EXCEPT !.duration = PreviewDuration])

PreviewNext ==
  \/ AnalysisDone
  \/ EditSegment
  \/ SubtitleClick
  \/ handleTimeUpdate
  \/ togglePlay
  \/ VideoAdvance
  \/ VideoEndedEvent
  \/ SeekedEvent

PreviewSpec == PreviewInit /\ [][PreviewNext]_vars

\* ------------------------------------------------------- the frame layout
\* onChange of the font size slider (16..60)
FontSizes == {30, 60}

setFontSize ==
  /\ Running
  /\ \E size \in FontSizes :
       /\ size # display.fontSize
       /\ display' = [display EXCEPT !.fontSize = size]
  /\ UNCHANGED <<rev, supported, canCapture, currentTime, transcriber,
                 videoSrc, transcript, subtitles, uiVars, isRenderingRef, video, pc, saved,
                 closureStatus, selectedMimeType, recVars, streamTracks,
                 stoppedTracks, tickPending, endedListener, seekListener,
                 endedEvent, resumeTimer, inFlight, thrown, pre, outcome,
                 lastError>>

\* videos 360 and 720 pixels wide, fonts with characters 0.5 and 0.6 em wide
Displays ==
  { [videoWidth |-> w, fontSize |-> 30, glyph |-> g] : w \in {360, 720}, g \in {5, 6} }

\* texts without word timing: four short words, nine characters in two
\* words, one word of ten characters, two long words
LayoutTexts ==
  { <<"a", " ", "b", " ", "c", " ", "d">>,
    <<"a", "b", "c", "d", "e", " ", "f", "g", "h", "i">>,
    <<"a", "b", "c", "d", "e", "f", "g", "h", "i", "j">>,
    <<"a", "b", "c", "d", "e", "f", "g", "h", " ", "i", "j", "k", "l", "m", "n", "o", "p">> }

LayoutTranscripts ==
  { [chunks |-> <<>>, text |-> tx, audioLength |-> 2 * (SampleRate \div 10)] :
      tx \in LayoutTexts }

LayoutInit ==
  /\ rev \in Revisions
  /\ supported = {"video/webm"}
  /\ canCapture = TRUE
  /\ videoSrc = TRUE
  /\ transcript \in LayoutTranscripts \cup PreviewTranscripts
  /\ subtitles = <<>>
  /\ status = "ANALYZING"
  /\ currentTime = 0
  /\ display \in Displays
  /\ transcriber = FALSE
  /\ NoSession

LayoutNext ==
  \/ AnalysisDone
  \/ setFontSize
  \/ EditSegment
  \/ SubtitleClick
  \/ SeekedEvent

LayoutSpec == LayoutInit /\ [][LayoutNext]_vars

\* the component with the element's timeupdate events delivered
TimedNext ==
  \/ Next
  \/ handleTimeUpdate

TimedSpec == Init /\ [][TimedNext]_vars


\* ------------------------------------------------------------ properties
\* the invocation has run its finally block and the component has not yet
\* re-rendered
Finished == pc = "done"

\* C1: when a session has reached its outcome and run its cleanup, the
\* element's position, mute flag and volume are those it had when the
\* session began
C1_PlaybackRestored ==
  Finished =>
    /\ video.currentTime = pre.originalTime
    /\ video.muted = pre.originalMuted
    /\ video.volume = pre.originalVolume

\* a successful session that began away from position 0, muted, volume
\* lowered
C1_Witness ==
  /\ Finished /\ outcome = "DONE"
  /\ pre.originalTime # 0 /\ pre.originalMuted /\ pre.originalVolume # 100

\* the encoder of the session has fired its stop event
EncoderStopped ==
  mediaRecorder.state = "inactive" /\ ~mediaRecorder.stopQueued

\* C2: a session whose encoder stopped with zero output bytes ends FAILED
\* with the empty-artifact error, and nothing is handed to the download link
C2_EmptyArtifactFails ==
  (Finished /\ EncoderStopped /\ BlobSize(chunks) = 0) =>
    (outcome = "FAILED" /\ downloads = <<>>)

\* App.tsx: the encoder stopped without a byte, the session ended DONE and
\* the empty blob went to the download link
C2_Witness ==
  /\ Finished /\ rev = "App.tsx" /\ outcome = "DONE"
  /\ EncoderStopped /\ BlobSize(chunks) = 0
  /\ downloads = << <<>> >>

\* C3: after a failed session has finished, cleanup included, the status is
\* ERROR and an error message is set
C3_FailedLeavesError ==
  (Finished /\ outcome = "FAILED") =>
    (status = "ERROR" /\ errorMessage # "null")

\* a session that failed with the empty-artifact error and was left READY
C3_Witness ==
  /\ Finished /\ outcome = "FAILED" /\ lastError = MsgEmpty
  /\ errorMessage = MsgEmpty /\ status = "READY"

\* no task of the session is scheduled and the source plays no further:
\* nothing the session set up will run again
SessionAtRest ==
  /\ pc = "recording"
  /\ ~tickPending /\ ~endedEvent /\ ~mediaRecorder.stopQueued
  /\ video.ended

\* C4: once an exception was raised in the session's code (the draw work of
\* a tick run from requestAnimationFrame included), the session ends FAILED
\* with the rendering flag clear and the cleanup run: it neither ends DONE
\* nor comes to rest before its cleanup
C4_ExceptionFails ==
  (thrown /\ (Finished \/ SessionAtRest)) =>
    (Finished /\ outcome = "FAILED" /\ ~isRenderingRef)

\* App.tsx: a tick threw, the source has ended, and the session rests in
\* RENDERING with the flag set and the encoder recording
C4_Witness ==
  /\ thrown /\ SessionAtRest /\ rev = "App.tsx"
  /\ status = "RENDERING" /\ isRenderingRef
  /\ mediaRecorder.state = "recording"

\* the encoder's stop is still on its way: the tick that will request it is
\* scheduled (App.tsx), the 'ended' task that will request it is queued
\* (part_000)
StopComing ==
  IF rev = "App.tsx" THEN tickPending /\ isRenderingRef
  ELSE endedEvent /\ endedListener

\* C5: stop is requested at most once, the rendering flag is clear after
\* the request, and when the source has ended while the encoder is still
\* recording the request is on its way
C5_StopOnceWhenEnded ==
  /\ mediaRecorder.stopCalls <= 1
  /\ mediaRecorder.stopCalls = 1 => ~isRenderingRef
  /\ (pc = "recording" /\ video.ended /\ mediaRecorder.state = "recording")
       => StopComing

\* the source has ended and its 'ended' task has run, the encoder is still
\* recording, and no stop was requested or is on its way
C5_Witness ==
  /\ pc = "recording" /\ video.ended /\ video.paused /\ ~endedEvent
  /\ mediaRecorder.state = "recording" /\ mediaRecorder.stopCalls = 0
  /\ ~StopComing

\* C6: never more than one handleExport invocation in flight
C6_SingleSession == inFlight <= 1

\* a session is in flight and the Export button is not rendered
C6_Witness ==
  /\ inFlight = 1 /\ pc = "recording" /\ mediaRecorder.state = "recording"
  /\ ~ExportButtonShown

\* C7: when a session has finished, every track of the stream that was fed
\* to the encoder has been stopped
C7_TracksReleased == Finished => streamTracks \subseteq stoppedTracks

\* a successful session with audio that ended with both tracks of the
\* encoder's stream live
C7_Witness ==
  /\ Finished /\ outcome = "DONE"
  /\ streamTracks = {"canvas", "audio"}
  /\ streamTracks \cap stoppedTracks = {}

\* C8: the selected codec is the first supported entry of the preference
\* list; with no supported entry the session fails with the 'unsupported'
\* error and no encoder is created
C8_CodecSelection ==
  /\ selectedMimeType # NoMime =>
       /\ selectedMimeType \in supported
       /\ selectedMimeType = find(mimeTypes(rev), supported)
  /\ (pc \notin {"idle", "fonts", "seek"}
        /\ find(mimeTypes(rev), supported) = NoMime) =>
       /\ Finished /\ outcome = "FAILED" /\ lastError = MsgUnsupported
       /\ mediaRecorder.state = "none"

\* App.tsx on a runtime that supports no entry of the list: the encoder was
\* started with the type that was never probed
C8_Witness ==
  /\ rev = "App.tsx" /\ find(mimeTypes(rev), supported) = NoMime
  /\ selectedMimeType = "video/webm"
  /\ mediaRecorder.state = "recording"

\* C9: when the audio bridge added no audio track, no audio error is
\* reported, and unless the encoder's constructor failed the encoder was
\* started on the video-only stream
C9_AudioDegrades ==
  (streamTracks # {} /\ "audio" \notin streamTracks) =>
    /\ lastError # MsgAudio /\ errorMessage # MsgAudio
    /\ lastError # MsgNotSupported => mediaRecorder.state # "none"

\* a session without audio track that completed successfully
C9_Witness ==
  /\ Finished /\ outcome = "DONE" /\ streamTracks = {"canvas"}
  /\ downloads # <<>>

\* the words of the transcript as the segmenter receives them: the text
\* trimmed, the timestamps as given
InputWords(cs) ==
  [k \in 1..Len(cs) |->
     [text |-> Trim(cs[k].text), start |-> cs[k].timestamp[1],
      end |-> cs[k].timestamp[2]]]

RECURSIVE ConcatWords(_)
ConcatWords(segs) ==
  IF segs = <<>> THEN <<>> ELSE segs[1].words \o ConcatWords(Tail(segs))

Segmented == status = "READY" /\ transcript.chunks # <<>>

\* C10: for every non-empty input word sequence the words lists of the
\* returned segments, concatenated in segment order, are exactly the input
\* words in their order; in particular the last segment ends with the last
\* input word, also when it holds fewer than WORDS_PER_SEGMENT words
C10_SegmentsCoverWords ==
  Segmented =>
    /\ subtitles # <<>>
    /\ \A k \in 1..Len(subtitles) : subtitles[k].words # <<>>
    /\ ConcatWords(subtitles) = InputWords(transcript.chunks)

\* six or more words without a pause among the last ones: a full group
\* followed by a trailing group of fewer than WORDS_PER_SEGMENT words
C10_Witness ==
  /\ Segmented
  /\ Len(transcript.chunks) > WORDS_PER_SEGMENT
  /\ Len(subtitles) >= 2
  /\ Len(subtitles[Len(subtitles)].words) < WORDS_PER_SEGMENT
  /\ ~HasPause(transcript.chunks, Len(transcript.chunks) - 1)

\* the silence between word i and word i + 1 of the transcript
Gap(cs, i) == cs[i + 1].timestamp[1] - cs[i].timestamp[2]

\* the number of words in the first k segments
RECURSIVE WordsUpTo(_, _)
WordsUpTo(segs, k) ==
  IF k = 0 THEN 0 ELSE WordsUpTo(segs, k - 1) + Len(segs[k].words)

\* word i of the input is the last word of segment k
EndsSegment(segs, k, i) == WordsUpTo(segs, k) = i

\* C11: whenever the silence between consecutive words i and i + 1 exceeds
\* the pause threshold, word i is the last word of a segment and word i + 1
\* the first of the next; a silence of exactly the threshold closes no
\* segment (a segment that ends there ends because it is full); the words
\* a [0, 1], b [1, 1.2], c [2.5, 2.8] give the segments [a, b] and [c]
C11_PauseBreak ==
  Segmented =>
    LET cs == transcript.chunks IN
    /\ \A i \in 1..(Len(cs) - 1) :
         /\ Gap(cs, i) > PauseThreshold =>
              \E k \in 1..(Len(subtitles) - 1) :
                /\ EndsSegment(subtitles, k, i)
                /\ subtitles[k].words[Len(subtitles[k].words)] = InputWords(cs)[i]
                /\ subtitles[k + 1].words[1] = InputWords(cs)[i + 1]
         /\ Gap(cs, i) = PauseThreshold =>
              \A k \in 1..Len(subtitles) :
                EndsSegment(subtitles, k, i) =>
                  Len(subtitles[k].words) = WORDS_PER_SEGMENT
    /\ cs = PauseExample =>
         /\ Len(subtitles) = 2
         /\ WordTexts(subtitles[1].words) = << <<"a">>, <<"b">> >>
         /\ WordTexts(subtitles[2].words) = << <<"c">> >>

\* a transcript with a silence above the threshold and a silence of exactly
\* the threshold inside a segment
C11_Witness ==
  /\ Segmented
  /\ \E i \in 1..(Len(transcript.chunks) - 1) :
       Gap(transcript.chunks, i) > PauseThreshold
  /\ \E i \in 1..(Len(transcript.chunks) - 1) :
       /\ Gap(transcript.chunks, i) = PauseThreshold
       /\ \A k \in 1..Len(subtitles) : ~EndsSegment(subtitles, k, i)

\* no silence between consecutive words of the transcript exceeds the
\* threshold
NoPause(cs) == \A i \in 1..(Len(cs) - 1) : Gap(cs, i) <= PauseThreshold

\* C12: every segment built from words holds between 1 and
\* WORDS_PER_SEGMENT words, and exactly WORDS_PER_SEGMENT words without a
\* pause give exactly one segment, which holds them all
C12_WordCountBreak ==
  Segmented =>
    /\ \A k \in 1..Len(subtitles) :
         /\ Len(subtitles[k].words) >= 1
         /\ Len(subtitles[k].words) <= WORDS_PER_SEGMENT
    /\ (Len(transcript.chunks) = WORDS_PER_SEGMENT /\ NoPause(transcript.chunks)) =>
         /\ Len(subtitles) = 1
         /\ Len(subtitles[1].words) = WORDS_PER_SEGMENT

\* exactly WORDS_PER_SEGMENT words with no silence at all between them
C12_Witness ==
  /\ Segmented
  /\ Len(transcript.chunks) = WORDS_PER_SEGMENT
  /\ \A i \in 1..(Len(transcript.chunks) - 1) : Gap(transcript.chunks, i) = 0
  /\ Len(subtitles) = 1

\* the length of the first j texts joined by single spaces
RECURSIVE JoinedLen(_, _)
JoinedLen(ts, j) ==
  IF j = 0 THEN 0
  ELSE JoinedLen(ts, j - 1) + (IF j > 1 THEN 1 ELSE 0) + Len(ts[j])

\* tx is the texts ts in order with exactly one blank between neighbours
JoinedBySingleSpaces(tx, ts) ==
  /\ Len(tx) = JoinedLen(ts, Len(ts))
  /\ \A j \in 1..Len(ts) :
       /\ SubSeq(tx, JoinedLen(ts, j) - Len(ts[j]) + 1, JoinedLen(ts, j)) = ts[j]
       /\ j > 1 => tx[JoinedLen(ts, j) - Len(ts[j])] = " "

\* C13: every segment built from words starts at the start of its first
\* word, ends at the end of its last word, has as text its words' texts
\* joined by single spaces, and has as words the input words it covers, in
\* input order
C13_SegmentFields ==
  Segmented =>
    \A k \in 1..Len(subtitles) :
      LET seg == subtitles[k]
          n == Len(seg.words)
      IN /\ n >= 1
         /\ seg.startTime = seg.words[1].start
         /\ seg.endTime = seg.words[n].end
         /\ JoinedBySingleSpaces(seg.text, [j \in 1..n |-> seg.words[j].text])
         /\ seg.words = SubSeq(InputWords(transcript.chunks),
                               WordsUpTo(subtitles, k - 1) + 1,
                               WordsUpTo(subtitles, k))

\* two segments of several words each, the second starting later than the
\* first
C13_Witness ==
  /\ Segmented
  /\ Len(subtitles) >= 2
  /\ Len(subtitles[1].words) >= 2 /\ Len(subtitles[2].words) >= 2
  /\ subtitles[2].startTime > subtitles[1].startTime

\* C14: consecutive segments built from words do not overlap: the earlier
\* one ends no later than the later one starts (the word shapes give every
\* word start <= end and non-decreasing starts, overlapping words included)
C14_NonOverlapping ==
  Segmented =>
    \A k \in 1..(Len(subtitles) - 1) :
      subtitles[k].endTime <= subtitles[k + 1].startTime

\* a full segment whose last word is still spoken when the first word of the
\* next segment starts: at that time both segments are active
C14_Witness ==
  /\ Segmented
  /\ Len(subtitles) >= 2
  /\ Len(subtitles[1].words) = WORDS_PER_SEGMENT
  /\ subtitles[1].endTime > subtitles[2].startTime
  /\ \E t \in subtitles[2].startTime..subtitles[1].endTime :
       \A k \in 1..2 : subtitles[k].startTime <= t /\ t <= subtitles[k].endTime

\* the transcriber returned no word chunks but a transcript text
TextOnly == status = "READY" /\ transcript.chunks = <<>> /\ transcript.text # <<>>

\* C15: with no word chunks and a non-empty transcript text the result is
\* exactly one segment from 0 to the estimated audio duration (samples /
\* SampleRate, here in tenths of a second), whose text is the trimmed
\* transcript and is not empty, and which has no words field
C15_FallbackSegment ==
  TextOnly =>
    /\ Len(subtitles) = 1
    /\ DOMAIN subtitles[1] = {"startTime", "endTime", "text"}
    /\ subtitles[1].startTime = 0
    /\ subtitles[1].endTime * SampleRate = transcript.audioLength * 10
    /\ subtitles[1].text = Trim(transcript.text)
    /\ subtitles[1].text # <<>>

\* a transcript text of blanks only gave a fallback segment with empty text
C15_Witness ==
  /\ TextOnly
  /\ Len(subtitles) = 1
  /\ "words" \notin DOMAIN subtitles[1]
  /\ subtitles[1].text = <<>>

\* C16: the segmenter returns at least one segment when the transcriber
\* returned words or a transcript text, and the empty sequence, as an
\* ordinary result (status READY), when it returned neither
C16_OutputNonEmptyIffInput ==
  status = "READY" =>
    (subtitles # <<>> <=> (transcript.chunks # <<>> \/ transcript.text # <<>>))

\* neither words nor text: the analysis ended READY with no segment
C16_Witness ==
  /\ status = "READY"
  /\ transcript.chunks = <<>> /\ transcript.text = <<>>
  /\ subtitles = <<>>

\* C17: for every segment with words the segmenter returns, the revealed
\* index (words with start <= t, minus 1), in the overlay and in the frame
\* renderer alike, does not decrease as t goes from startTime to endTime, is
\* at least 0 at startTime and is wordCount - 1 at endTime
C17_HighlightMonotone ==
  Segmented =>
    \A k \in 1..Len(subtitles) :
      LET seg == subtitles[k]
          O(t) == OverlayHighlightedIndex(seg, t)
          F(t) == FrameHighlightedIndex(seg, t)
      IN /\ \A t \in seg.startTime..seg.endTime :
              /\ O(t).d = 1 /\ F(t).d = 1
              /\ O(t).n = Started(seg.words, t) - 1
              /\ F(t).n = O(t).n
              /\ t < seg.endTime => O(t).n <= O(t + 1).n
         /\ O(seg.startTime).n >= 0
         /\ O(seg.endTime).n = Len(seg.words) - 1

\* a segment of several words with different starts: the index is 0 at
\* startTime and rises to wordCount - 1
C17_Witness ==
  /\ Segmented
  /\ \E k \in 1..Len(subtitles) :
       LET seg == subtitles[k] IN
       /\ Len(seg.words) >= 3
       /\ seg.startTime < seg.endTime
       /\ FrameHighlightedIndex(seg, seg.startTime) = Num(0)
       /\ FrameHighlightedIndex(seg, seg.endTime) = Num(Len(seg.words) - 1)

\* the preview is shown: a video is loaded and no export is rendering
Previewing == videoSrc /\ status = "READY"

\* a segment without word-level timing
Wordless(seg) == "words" \notin DOMAIN seg

\* the number of space-separated words of a text
WordCount(tx) == Len(Split(tx))

\* the times a caption is asked for: every playback position of the video,
\* the time the preview shows and the position of the element
Times == 0..video.duration \cup {currentTime, video.currentTime}

\* k = floor(clamp(num / den, 0, 1) * n) for den > 0, without division
IsFloorOfClamped(k, num, den, n) ==
  LET c == IF num < 0 THEN 0 ELSE IF num > den THEN den ELSE num
  IN k * den <= c * n /\ c * n < (k + 1) * den

\* the wordless segment [10, 14] (seconds) with text "a b c d"
LinearExample ==
  [startTime |-> 100, endTime |-> 140,
   text |-> <<"a", " ", "b", " ", "c", " ", "d">>]

\* C18: for a segment without word-level timing and startTime < endTime the
\* revealed index at every time t, in the overlay and in the frame renderer,
\* is floor(clamp((t - startTime) / (endTime - startTime), 0, 1) * wordCount)
\* with wordCount the number of space-separated words of the text; the
\* segment [10, 14] "a b c d" gives 2 at t = 12
C18_LinearHighlight ==
  /\ Previewing =>
       \A k \in 1..Len(subtitles) :
         LET seg == subtitles[k] IN
         (Wordless(seg) /\ seg.startTime < seg.endTime) =>
           \A t \in Times :
             LET O == OverlayHighlightedIndex(seg, t)
                 F == FrameHighlightedIndex(seg, t)
             IN /\ O.d = 1 /\ F = O
                /\ IsFloorOfClamped(O.n, t - seg.startTime,
                                    seg.endTime - seg.startTime,
                                    WordCount(seg.text))
  /\ OverlayHighlightedIndex(LinearExample, 120) = Num(2)
  /\ FrameHighlightedIndex(LinearExample, 120) = Num(2)

\* the preview shows time 12 inside the wordless segment [10, 14] of four
\* words: the index is 2, the first three words are highlighted
C18_Witness ==
  /\ Previewing
  /\ currentTime = 12
  /\ LET c == SubtitleOverlay(subtitles, currentTime) IN
     /\ c.segment # 0
     /\ Wordless(subtitles[c.segment])
     /\ subtitles[c.segment].startTime = 10
     /\ subtitles[c.segment].endTime = 14
     /\ c.words = << <<"a">>, <<"b">>, <<"c">>, <<"d">> >>
     /\ OverlayHighlightedIndex(subtitles[c.segment], currentTime) = Num(2)
     /\ c.highlighted = <<TRUE, TRUE, TRUE, FALSE>>

\* the active segment is wordless and of zero duration
ZeroDurationShown(subs, t) ==
  LET k == FindActive(subs, t, 1) IN
  k # 0 /\ Wordless(subs[k]) /\ subs[k].endTime = subs[k].startTime

\* C19: when the active segment has no word-level timing and endTime equal
\* to startTime, the revealed index at t = startTime is a number, not NaN,
\* and every word is drawn revealed, in the overlay and in the frame alike
C19_ZeroDurationDefined ==
  Previewing =>
    \A t \in Times :
      ZeroDurationShown(subtitles, t) =>
        LET seg == subtitles[FindActive(subtitles, t, 1)] IN
        /\ ~IsNaN(OverlayHighlightedIndex(seg, t))
        /\ ~IsNaN(FrameHighlightedIndex(seg, t))
        /\ \A j \in 1..Len(WordList(seg)) :
             /\ SubtitleOverlay(subtitles, t).highlighted[j]
             /\ FrameCaption(subtitles, t).highlighted[j]

\* the preview shows a zero-duration wordless segment with no word revealed
C19_Witness ==
  /\ Previewing
  /\ ZeroDurationShown(subtitles, currentTime)
  /\ LET c == SubtitleOverlay(subtitles, currentTime) IN
     /\ IsNaN(OverlayHighlightedIndex(subtitles[c.segment], currentTime))
     /\ c.words # <<>>
     /\ \A j \in 1..Len(c.words) : ~c.highlighted[j]

\* C20: for the segment list of every state and every time t, the overlay
\* given t and the frame drawn at position t have the same active segment,
\* the same word list and the same highlighted words
C20_PreviewMatchesExport ==
  Previewing =>
    \A t \in Times : SubtitleOverlay(subtitles, t) = FrameCaption(subtitles, t)

\* the preview shows the position of the element inside a segment some of
\* whose words are revealed and some not, after an edit of the list
C20_Witness ==
  /\ Previewing
  /\ currentTime = video.currentTime
  /\ subtitles # generateSubtitles(transcript, transcript.audioLength)
  /\ LET c == SubtitleOverlay(subtitles, currentTime) IN
     /\ c.segment # 0
     /\ c = FrameCaption(subtitles, video.currentTime)
     /\ \E i, j \in 1..Len(c.words) : c.highlighted[i] /\ ~c.highlighted[j]

\* a step that is a text edit of segment k: the list keeps its length and
\* the text of segment k changes while the editor is shown
TextEdited(k) ==
  /\ status = "READY" /\ status' = "READY"
  /\ Len(subtitles') = Len(subtitles)
  /\ k \in 1..Len(subtitles)
  /\ subtitles'[k].text # subtitles[k].text

\* C21: a text edit of a segment discards its word-level timing: after the
\* step the segment has no words field, and the caption of the overlay and
\* of the frame renderer for it is the edited text split into words
C21_TextEditDiscardsWords ==
  [][\A k \in 1..Len(subtitles) :
       TextEdited(k) =>
         /\ Wordless(subtitles'[k])
         /\ WordList(subtitles'[k]) = Split(subtitles'[k].text)]_vars

\* a segment with word timing whose text was edited is shown, and the
\* overlay and the frame show the recorded words, not the edited text
C21_Witness ==
  /\ Previewing
  /\ LET c == SubtitleOverlay(subtitles, currentTime) IN
     /\ c.segment # 0
     /\ ~Wordless(subtitles[c.segment])
     /\ subtitles[c.segment].text \in EditTexts
     /\ c.words = WordTexts(subtitles[c.segment].words)
     /\ c.words # Split(subtitles[c.segment].text)
     /\ FrameCaption(subtitles, currentTime).words = c.words

\* an export session has set the rendering status and its cleanup (the
\* finally block) has not run
InSession == pc \in {"fonts", "seek", "play", "recording"}

\* the overlay is mounted (App.tsx lines 420-422)
OverlayRendered == videoSrc /\ status # "RENDERING"

\* C22: from the start of an export session until its cleanup the overlay
\* is not rendered and no step changes the preview's currentTime
C22_OverlaySuppressed ==
  [][InSession =>
       /\ ~OverlayRendered
       /\ InSession' => currentTime' = currentTime]_vars

\* the session still awaits the encoder, and the preview shows a time the
\* element reached during the session
C22_Witness ==
  /\ InSession
  /\ pc = "recording"
  /\ ~isRenderingRef
  /\ status = "RENDERING"
  /\ pre.originalTime = 0
  /\ currentTime = video.currentTime
  /\ currentTime # 0

\* the words of the caption a tick draws at the element's position, <<>>
\* when no segment is active
FrameWords == FrameCaption(subtitles, video.currentTime).words

\* the layout of that caption
FrameLayout == Layout(FrameWords, display, rev)

\* C23: the caption block is scaled down exactly when its total width (word
\* widths plus wordCount - 1 spaces) exceeds maxWidthFraction of the canvas
\* width; the scale is then maxWidthFraction * canvasWidth / totalWidth and
\* is 1 otherwise; the drawn block is never wider than maxWidthFraction *
\* canvasWidth and is centred on canvasWidth / 2
C23_CaptionDownscale ==
  (status = "READY" /\ FrameWords # <<>>) =>
    LET total == TotalWidth(FrameWords, display)
        max == RTimes(MaxWidthFraction(rev), Num(display.videoWidth))
        L == FrameLayout
    IN /\ L.scaled <=> RLess(max, total)
       /\ L.scaled => RTimes(L.scale, total) = max
       /\ ~L.scaled => L.scale = Num(1)
       /\ ~RLess(max, RMinus(L.right, L.left))
       /\ RPlus(L.left, L.right) = Num(display.videoWidth)

\* a caption wider than the limit is drawn scaled down
C23_Witness ==
  /\ status = "READY"
  /\ FrameWords # <<>>
  /\ FrameLayout.scaled
  /\ RLess(FrameLayout.scale, Num(1))
  /\ RLess(MaxWidth(display, rev), TotalWidth(FrameWords, display))

\* a caption exactly as wide as the limit is drawn unscaled
CaptionAtLimit ==
  /\ status = "READY"
  /\ FrameWords # <<>>
  /\ TotalWidth(FrameWords, display) = MaxWidth(display, rev)
  /\ ~FrameLayout.scaled

\* a run of generateSubtitles on the loaded file has returned and the list
\* is as returned (no edit has been made)
Analysed == status \in {"READY", "RENDERING"}

C26_SessionTerminates == InSession ~> Finished

\* a session that cannot go on: it waits for a 'seeked' event with the seek
\* completed and nothing scheduled, and no exception was raised
C26_Witness ==
  /\ pc = "seek"
  /\ seekListener
  /\ ~video.seeking
  /\ ~thrown
  /\ ~resumeTimer /\ ~tickPending /\ ~endedEvent /\ ~mediaRecorder.stopQueued
  /\ video.paused

\* the encoder of the session is started in this step
EncoderStarts ==
  mediaRecorder.state # "recording" /\ mediaRecorder'.state = "recording"

\* C27: a session that finds the source at position 0 goes on without
\* waiting for a 'seeked' event and leaves no listener attached; a session
\* that began at a non-zero position starts the encoder only once the seek to
\* 0 has completed, that is in the step that handles 'seeked' or with no
\* seek under way
C27_SeekWait ==
  [][/\ (FontsReady /\ video.currentTime = 0) => (~seekListener' /\ pc' # "seek")
     /\ (EncoderStarts /\ pre.originalTime # 0) => (SeekedEvent \/ ~video.seeking)
    ]_vars

\* the encoder records and playback was requested while the seek to 0 of a
\* session begun at a non-zero position is still under way
C27_Witness ==
  /\ pc = "play"
  /\ mediaRecorder.state = "recording"
  /\ pre.originalTime # 0
  /\ video.seeking
  /\ video.currentTime = 0
  /\ ~seekListener

\* the session calls video.play() in this step (line 254)
PlaybackStarts == pc # "play" /\ pc' = "play"

\* C28: when the encoder is started the source is paused, at position 0,
\* unmuted and at full volume; the session starts playback only with the
\* encoder started, and composites its first frame only after that
C28_StartOrdering ==
  [][/\ EncoderStarts =>
          (/\ video.paused
           /\ video.currentTime = 0
           /\ ~video.muted
           /\ video.volume = 100)
     /\ PlaybackStarts => (mediaRecorder'.state = "recording" /\ ~video'.paused)
     /\ PlayResolved => (pc = "play" /\ ~video.paused)
    ]_vars

\* a session about to start its encoder (the seek wait passes at position 0
\* and the browser can record) with the source already playing
C28_Witness ==
  /\ pc = "fonts"
  /\ video.currentTime = 0
  /\ ~video.paused
  /\ canCapture
  /\ selectMimeType(rev, supported) \in supported

\* the silence between the last word of segment k and the first word of the
\* segment after it
PauseAfter(segs, k) ==
  segs[k + 1].words[1].start - segs[k].words[Len(segs[k].words)].end

\* C29: every segment built from a word stream, other than the last one,
\* either holds exactly WORDS_PER_SEGMENT words or is followed by a pause
\* above the threshold; a segment is closed for no other reason
C29_NoSpuriousBreak ==
  Segmented =>
    \A k \in 1..(Len(subtitles) - 1) :
      \/ Len(subtitles[k].words) = WORDS_PER_SEGMENT
      \/ PauseAfter(subtitles, k) > PauseThreshold

\* a short segment closed by a pause, and a silence of exactly the threshold
\* between two words that stay in one segment
C29_Witness ==
  /\ Segmented
  /\ \E k \in 1..(Len(subtitles) - 1) :
       /\ Len(subtitles[k].words) < WORDS_PER_SEGMENT
       /\ PauseAfter(subtitles, k) > PauseThreshold
  /\ \E k \in 1..Len(subtitles) :
       \E j \in 1..(Len(subtitles[k].words) - 1) :
         subtitles[k].words[j + 1].start - subtitles[k].words[j].end = PauseThreshold

\* every word has start <= end and the starts do not decrease
WellTimed(cs) ==
  /\ \A i \in 1..Len(cs) : cs[i].timestamp[1] <= cs[i].timestamp[2]
  /\ \A i \in 1..(Len(cs) - 1) : cs[i].timestamp[1] <= cs[i + 1].timestamp[1]

\* C30: for a word stream with start <= end in every word and non-decreasing
\* starts, the segments come out in non-decreasing order of startTime and
\* every segment has startTime <= endTime
C30_OrderedOutput ==
  (Segmented /\ WellTimed(transcript.chunks)) =>
    /\ \A k \in 1..(Len(subtitles) - 1) :
         subtitles[k].startTime <= subtitles[k + 1].startTime
    /\ \A k \in 1..Len(subtitles) :
         subtitles[k].startTime <= subtitles[k].endTime

\* a second segment that starts after the first one has started and before
\* it has ended, and a segment that lasts longer than an instant
C30_Witness ==
  /\ Segmented
  /\ WellTimed(transcript.chunks)
  /\ Len(subtitles) >= 2
  /\ subtitles[1].startTime < subtitles[2].startTime
  /\ subtitles[2].startTime < subtitles[1].endTime
  /\ subtitles[2].startTime < subtitles[2].endTime

\* the blobs of size above 0 among the events sizes, numbered from n on, in
\* the order of arrival
RECURSIVE NonEmptyChunks(_, _)
NonEmptyChunks(n, sizes) ==
  IF sizes = <<>> THEN <<>>
  ELSE (IF Head(sizes) > 0 THEN << [n |-> n, size |-> Head(sizes)] >> ELSE <<>>)
         \o NonEmptyChunks(n + 1, Tail(sizes))

\* onstop hands a blob to the download link in this step
Delivers == downloads' # downloads /\ downloads' # <<>>

\* C31: the non-empty chunks the encoder delivers are appended in arrival
\* order and the empty ones skipped; at the stop event the artifact is the
\* concatenation of exactly those chunks; the artifact goes to the download
\* link once in a successful session and never in a failed one
C31_ChunkAccumulation ==
  [][/\ RecorderStop =>
          \E sizes \in DataSizes : chunks' = chunks \o NonEmptyChunks(1, sizes)
     /\ Delivers => (RecorderStop /\ downloads' = Append(downloads, chunks'))
     /\ (Finished' /\ outcome' = "DONE") => Len(downloads') = 1
     /\ (Finished' /\ outcome' = "FAILED") => downloads' = <<>>
    ]_vars

\* a session that ended FAILED after its encoder's error event, with the
\* blob of the stop event that followed handed to the download link
C31_Witness ==
  /\ Finished
  /\ outcome = "FAILED"
  /\ lastError = OnErrorMessage
  /\ downloads # <<>>

\* the segments whose span, both ends included, holds the time t
ActiveAt(subs, t) ==
  { k \in 1..Len(subs) : subs[k].startTime <= t /\ t <= subs[k].endTime }

\* C32: at every time t the frame renderer (and the overlay) uses the first
\* segment in list order with startTime <= t <= endTime, both ends included;
\* with no such segment no caption is drawn
C32_ActiveSegment ==
  Previewing =>
    \A t \in Times :
      LET A == ActiveAt(subtitles, t)
          F == FrameCaption(subtitles, t)
          O == SubtitleOverlay(subtitles, t)
      IN /\ O.segment = F.segment
         /\ A = {} => (F.segment = 0 /\ F.words = <<>> /\ O.words = <<>>)
         /\ A # {} =>
              /\ F.segment \in A
              /\ \A k \in A : F.segment <= k
              /\ F.words = WordList(subtitles[F.segment])

\* a segment of a single instant that is first in the list and active at
\* that instant together with the segment after it, and a time at which no
\* segment is active
C32_Witness ==
  /\ Previewing
  /\ Len(subtitles) >= 2
  /\ subtitles[1].startTime = subtitles[1].endTime
  /\ ActiveAt(subtitles, subtitles[1].startTime) = {1, 2}
  /\ FrameCaption(subtitles, subtitles[1].startTime).segment = 1
  /\ \E t \in Times : FrameCaption(subtitles, t).segment = 0

\* the index x is -1 or the index of one of n words
IsWordIndex(x, n) == x.d = 1 /\ -1 <= x.n /\ x.n <= n - 1

\* C33: the revealed index computed for the active segment at a time t within
\* its span, by the overlay and by the frame renderer, is -1 or the index of
\* an existing word, with word-level timing and with the linear fallback,
\* t = endTime included
C33_RevealedIndexInRange ==
  Previewing =>
    \A t \in Times :
      LET k == FindActive(subtitles, t, 1) IN
      k # 0 =>
        /\ IsWordIndex(FrameHighlightedIndex(subtitles[k], t),
                       Len(WordList(subtitles[k])))
        /\ IsWordIndex(OverlayHighlightedIndex(subtitles[k], t),
                       Len(WordList(subtitles[k])))

\* the preview shows the end time of a wordless segment that lasts: the
\* index is the number of its words
C33_Witness ==
  /\ Previewing
  /\ LET k == FindActive(subtitles, currentTime, 1) IN
     /\ k # 0
     /\ Wordless(subtitles[k])
     /\ subtitles[k].startTime < subtitles[k].endTime
     /\ currentTime = subtitles[k].endTime
     /\ FrameHighlightedIndex(subtitles[k], currentTime) =
          Num(WordCount(subtitles[k].text))

\* the step changes field f of segment i of the list and nothing else of it
OnlyFieldChanged(i, f) ==
  /\ Len(subtitles') = Len(subtitles)
  /\ \A j \in 1..Len(subtitles) : j # i => subtitles'[j] = subtitles[j]
  /\ DOMAIN subtitles'[i] = DOMAIN subtitles[i]
  /\ \A g \in DOMAIN subtitles[i] : g # f => subtitles'[i][g] = subtitles[i][g]

\* C34: an edit of a segment changes the one field of the one segment: the
\* number and order of the segments, every other segment and the other
\* fields of the segment stay as they are, nothing is sorted or corrected
C34_EditChangesOneField ==
  [][EditSegment =>
       /\ \E i \in 1..Len(subtitles) : \E f \in {"text", "startTime", "endTime"} :
            OnlyFieldChanged(i, f)
       /\ UNCHANGED <<transcript, status, currentTime, video, isPlaying>>
    ]_vars

\* after edits of the times of a list that came out of the segmenter: two
\* consecutive segments overlap, the earlier one's endTime differs from its
\* last word's end and the later one's startTime from its first word's start
C34_Witness ==
  /\ Previewing
  /\ \E k \in 1..(Len(subtitles) - 1) :
       /\ ~Wordless(subtitles[k]) /\ ~Wordless(subtitles[k + 1])
       /\ subtitles[k].endTime >= subtitles[k + 1].startTime
       /\ subtitles[k].endTime # subtitles[k].words[Len(subtitles[k].words)].end
       /\ subtitles[k + 1].startTime # subtitles[k + 1].words[1].start

\* a video is loaded, no export session is under way or waiting to be
\* rendered away, and no timer or event of the element is pending
NoHandlerRunning ==
  /\ videoSrc
  /\ pc = "idle"
  /\ ~resumeTimer /\ ~endedEvent /\ ~tickPending
  /\ ~video.seeking

\* the element is playing
Playing(v) == ~v.paused /\ ~v.ended

\* C35: whenever no handler is running, isPlaying is true exactly when the
\* video element is playing
C35_IsPlayingConsistent == NoHandlerRunning => (isPlaying <=> Playing(video))

\* the editor is shown, no handler is running, the video plays on from a
\* position past its start and isPlaying is false
C35_Witness ==
  /\ NoHandlerRunning
  /\ status = "READY"
  /\ Playing(video)
  /\ video.currentTime > 0
  /\ ~isPlaying

====
